---- MODULE Spec2Model ----
(***************************************************************************)
(* A model of linuxfd's timerfd_c extension module                         *)
(* (src/source/timerfd_c.c): the five exported operations                  *)
(* timerfd_create, timerfd_settime, timerfd_settime_ns, timerfd_gettime    *)
(* and timerfd_read, each split at the points where the interpreter lock   *)
(* is released and re-acquired, running against a model of the descriptor  *)
(* table and of the kernel's timer objects.                                *)
(*                                                                         *)
(* Numbers.  TLC's integers are 32 bits wide, the program's are not, so    *)
(* every wide quantity is kept as digits in base 1e9:                      *)
(*   - a C double is a sign and a fixed-point magnitude                    *)
(*       hi*1e9 + lo  seconds,  ns nanoseconds,  sub * 1e-18 seconds;      *)
(*     multiplying by 1e9 is then a shift by one digit.  Binary rounding   *)
(*     of the floating-point operations is not modelled;                   *)
(*   - a time_t / long is a sign and three digits d2*1e18 + d1*1e9 + d0;   *)
(*   - the 8-byte read buffer is a sequence of 8 bytes, least significant  *)
(*     first, and a Python int is a sign and such a magnitude.             *)
(***************************************************************************)
EXTENDS Integers, Sequences, FiniteSets, TLC

\* 1e9: nanoseconds per second, and the base of the wide numbers.
Base == 1000000000

-----------------------------------------------------------------------------
(* Unsigned two-digit magnitudes hi*Base + lo.                             *)

Mag(h, l) == [hi |-> h, lo |-> l]

MagZero == Mag(0, 0)

MagLeq(a, b) == a.hi < b.hi \/ (a.hi = b.hi /\ a.lo <= b.lo)

MagAdd(a, b) ==
    LET s == a.lo + b.lo
    IN  Mag(a.hi + b.hi + (IF s >= Base THEN 1 ELSE 0), s % Base)

\* a - b for a >= b
MagSub(a, b) ==
    IF a.lo < b.lo THEN Mag(a.hi - b.hi - 1, (a.lo + Base) - b.lo)
                   ELSE Mag(a.hi - b.hi, a.lo - b.lo)

\* INT_MAX = 2147483647 and -INT_MIN = 2147483648 of the C type int, and 2^32.
IntMaxMag == Mag(2, 147483647)
IntMinMag == Mag(2, 147483648)
Two32Mag  == Mag(4, 294967296)

-----------------------------------------------------------------------------
(* C doubles.                                                              *)

Dbl(n, h, l, nano, s) == [neg |-> n, hi |-> h, lo |-> l, ns |-> nano, sub |-> s]

Whole(d) == Mag(d.hi, d.lo)

IsZeroDbl(d) == d.hi = 0 /\ d.lo = 0 /\ d.ns = 0 /\ d.sub = 0

\* d > 0 and d < 0 as C compares doubles
DblPositive(d) == ~d.neg /\ ~IsZeroDbl(d)
DblNegative(d) == d.neg /\ ~IsZeroDbl(d)

\* the arguments the model passes as doubles
DZero       == Dbl(FALSE, 0, 0, 0, 0)                  \* 0.0
DSubNano    == Dbl(FALSE, 0, 0, 0, 100000000)          \* 1e-10
DNegSubNano == Dbl(TRUE,  0, 0, 0, 100000000)          \* -1e-10
DNanoHalf   == Dbl(FALSE, 0, 0, 1, 500000000)          \* 1.5e-9
DFifty      == Dbl(FALSE, 0, 0, 50000000, 0)           \* 0.05
DOneHalf    == Dbl(FALSE, 0, 1, 500000000, 0)          \* 1.5
DNegHalf    == Dbl(TRUE,  0, 0, 500000000, 0)          \* -0.5
DNegOne     == Dbl(TRUE,  0, 1, 0, 0)                  \* -1.0
DIntMax     == Dbl(FALSE, 2, 147483647, 250000000, 0)  \* 2147483647.25
DBig        == Dbl(FALSE, 2, 147483648, 500000000, 0)  \* 2147483648.5

-----------------------------------------------------------------------------
(* C long / time_t values: sign and three digits.                          *)

Long(n, a, b, c) == [neg |-> n /\ (a # 0 \/ b # 0 \/ c # 0), d2 |-> a, d1 |-> b, d0 |-> c]

LongZero == Long(FALSE, 0, 0, 0)

\* (time_t)value: a double to a 64-bit integer, truncating toward zero
TimeTOf(d) == Long(d.neg, 0, d.hi, d.lo)

\* C ints as sign and magnitude
IntT(n, m) == [neg |-> n /\ m # MagZero, mag |-> m]

\* whether the truncated value of d fits the 32-bit int
IntInRange(d) == MagLeq(Whole(d), IF d.neg THEN IntMinMag ELSE IntMaxMag)

\* d reduced modulo 2^32 into the int range, for 2^31 <= |d| < 2^32
Wrap32(d) == IntT(~d.neg, MagSub(Two32Mag, Whole(d)))

\* (int)value.  Out of the int's range the conversion is undefined: the
\* builds give INT_MIN (x86), the nearer bound (saturating targets) or the
\* low 32 bits.
IntCastUB(d) == {IntT(TRUE, IntMinMag), IntT(FALSE, IntMaxMag), Wrap32(d)}

IntCast(d) == IF IntInRange(d) THEN {IntT(d.neg, Whole(d))} ELSE IntCastUB(d)

\* value - (int)value, in double arithmetic
DblMinusInt(d, i) ==
    IF i.mag = MagZero \/ i.neg # d.neg
    THEN LET w == MagAdd(Whole(d), i.mag) IN Dbl(d.neg, w.hi, w.lo, d.ns, d.sub)
    ELSE IF MagLeq(i.mag, Whole(d))
    THEN LET w == MagSub(Whole(d), i.mag) IN Dbl(d.neg, w.hi, w.lo, d.ns, d.sub)
    ELSE IF d.ns = 0 /\ d.sub = 0
    THEN LET w == MagSub(i.mag, Whole(d)) IN Dbl(~d.neg, w.hi, w.lo, 0, 0)
    ELSE LET w == MagSub(MagSub(i.mag, Whole(d)), Mag(0, 1))
         IN  IF d.sub = 0 THEN Dbl(~d.neg, w.hi, w.lo, Base - d.ns, 0)
                          ELSE Dbl(~d.neg, w.hi, w.lo, (Base - 1) - d.ns, Base - d.sub)

\* (long int)(1e9 * x): the shift by one digit, the fraction below 1 dropped
NsecOf(x) == Long(x.neg, x.hi, x.lo, x.ns)

\* struct timespec
Timespec(s, n) == [tv_sec |-> s, tv_nsec |-> n]

\* lines 108-109 (and 111-112): the timespecs a double can be split into
SplitDouble(value) ==
    { Timespec(TimeTOf(value), NsecOf(DblMinusInt(value, i))) : i \in IntCast(value) }

\* (double)tv_sec + (double)tv_nsec / 1e9, for tv_sec >= 0 and tv_nsec >= 0
\* (as the kernel returns them: then tv_nsec < 1e9 and the sum is exact)
JoinDouble(ts) ==
    LET w == MagAdd(Mag(ts.tv_sec.d1, ts.tv_sec.d0), Mag(ts.tv_nsec.d2, ts.tv_nsec.d1))
    IN  Dbl(FALSE, w.hi, w.lo, ts.tv_nsec.d0, 0)


TsZero == Timespec(LongZero, LongZero)

\* a timespec the kernel holds is zero: the timer it belongs to is disarmed
TsIsZero(ts) == ts = TsZero

\* a < b for two timespecs the kernel holds (both valid)
TsLess(a, b) ==
    \/ a.tv_sec.d1 < b.tv_sec.d1
    \/ a.tv_sec.d1 = b.tv_sec.d1 /\ a.tv_sec.d0 < b.tv_sec.d0
    \/ a.tv_sec = b.tv_sec /\ a.tv_nsec.d0 < b.tv_nsec.d0

struct_itimerspec(v, i) == [it_value |-> v, it_interval |-> i]

ItsZero == struct_itimerspec(TsZero, TsZero)

-----------------------------------------------------------------------------
(* The 8-byte buffer and Python ints.                                      *)

ZeroBytes == <<0, 0, 0, 0, 0, 0, 0, 0>>

\* the eight bytes of a counter below 2^31, least significant first
U64Bytes(n) ==
    <<n % 256, (n \div 256) % 256, (n \div 65536) % 256, n \div 16777216, 0, 0, 0, 0>>

\* b + 1 on little-endian bytes, from position i on (carry in)
RECURSIVE AddOne(_, _)
AddOne(b, i) ==
    IF i > Len(b) THEN b
    ELSE IF b[i] = 255 THEN AddOne([b EXCEPT ![i] = 0], i + 1)
    ELSE [b EXCEPT ![i] = b[i] + 1]

\* the magnitude of a negative two's-complement value: invert, add one
TwosNegate(b) == AddOne([i \in 1..Len(b) |-> 255 - b[i]], 1)

PyInt(n, m) == [neg |-> n, mag |-> m]

\* PyLong_FromLong(x), x a signed 64-bit long given by its eight bytes
PyLong_FromLong(b) ==
    IF b[8] >= 128 THEN PyInt(TRUE, TwosNegate(b)) ELSE PyInt(FALSE, b)

\* the Python int n for a small C int n >= 0
PyLong_FromInt(n) == PyLong_FromLong(U64Bytes(n))

\* a Python int of magnitude below 2^31, and its value as a model integer
PySmall(p) ==
    p.mag[5] = 0 /\ p.mag[6] = 0 /\ p.mag[7] = 0 /\ p.mag[8] = 0 /\ p.mag[4] < 128

PyValue(p) ==
    LET m == p.mag[1] + 256 * p.mag[2] + 65536 * p.mag[3] + 16777216 * p.mag[4]
    IN  IF p.neg THEN 0 - m ELSE m

\* What a call hands back to Python: nothing yet, an int, a tuple of two
\* floats, or a raised OSError carrying an errno.
PyNull         == [kind |-> "null",    errno |-> "",  v |-> PyInt(FALSE, ZeroBytes), a |-> DZero, b |-> DZero]
PyLongObj(p)   == [kind |-> "int",     errno |-> "",  v |-> p,                       a |-> DZero, b |-> DZero]
PyTuple(x, y)  == [kind |-> "tuple",   errno |-> "",  v |-> PyInt(FALSE, ZeroBytes), a |-> x,     b |-> y]
PyOSError(e)   == [kind |-> "OSError", errno |-> e,   v |-> PyInt(FALSE, ZeroBytes), a |-> DZero, b |-> DZero]

-----------------------------------------------------------------------------
(* Platform constants the module exports (lines 215-220), with their Linux *)
(* values.                                                                 *)

CLOCK_REALTIME      == 0
CLOCK_MONOTONIC     == 1
CLOCK_MONOTONIC_RAW == 4
TFD_NONBLOCK        == 2048
TFD_CLOEXEC         == 524288
TFD_TIMER_ABSTIME   == 1


-----------------------------------------------------------------------------
(* Bounds of the model.                                                    *)

\* timers the sequential specification may create before EMFILE
SeqTimers == 1
\* timers of the two-thread and of the two-timer specification
GilTimers == 1
TwoTimers == 2
\* expirations counted per timer between two arming calls
MaxExp == 3
\* the same, in the specifications that do not read the count
FewExp == 1

\* the descriptors every process starts with; timerfd_create returns the
\* lowest free one above them
StdFds == {0, 1, 2}
\* the descriptor the first timerfd_create returns
TimerFd == 3
\* a flags value with a bit neither timerfd_settime flag has
BadFlag == 4

Threads == {1, 2}
NoThread == 0

-----------------------------------------------------------------------------
(* State.                                                                  *)

VARIABLES
    fdt,     \* kernel: descriptor table, fd -> open file (stream or timer)
    total,   \* history: expirations of each timer since it was last set
    given,   \* history: sum of the counts timerfd_read returned for each timer
    gil,     \* the thread holding the interpreter lock, or NoThread
    pc,      \* per thread: "py", "call" (in the kernel call), "ret" (call returned)
    req,     \* per thread: the arguments and locals of its current/last call
    res,     \* per thread: what the kernel call returned
    errno,   \* per thread: the C library's errno
    ret      \* per thread: what the last call handed back to Python

vars == <<fdt, total, given, gil, pc, req, res, errno, ret>>

File(k, nb, its, n) == [kind |-> k, nonblock |-> nb, it |-> its, ticks |-> n]

FdClosed == File("closed", FALSE, ItsZero, 0)
FdStream == File("stream", FALSE, ItsZero, 0)

\* the 64-bit long of a Python int argument, as its two 32-bit words, each
\* read as an int
Words(h, l) == [hi |-> h, lo |-> l]

NsZero   == Words(0, 0)            \* 0
NsTenMs  == Words(0, 10000000)     \* 10_000_000
NsWide   == Words(3, 0)            \* 3 * 2^32

Request(o, fa, f, fl, ck, v, i, vn, in, nv) ==
    [op |-> o, fdarg |-> fa, fd |-> f, flags |-> fl, clockid |-> ck,
     value |-> v, interval |-> i, value_ns |-> vn, interval_ns |-> in,
     new_value |-> nv]

NoRequest == Request("none", 0, 0, 0, 0, DZero, DZero, NsZero, NsZero, ItsZero)

\* what a kernel call returned: its return value, what it wrote to the
\* caller's buffer or old_value/curr_value, and the error code it failed with
Result(r, b, o, e) == [result |-> r, buffer |-> b, old_value |-> o, err |-> e]

NoResult == Result(0, ZeroBytes, ItsZero, "")

InitWith(nofile) ==
    /\ fdt = [fd \in 0..(nofile - 1) |-> IF fd \in StdFds THEN FdStream ELSE FdClosed]
    /\ total = [fd \in 0..(nofile - 1) |-> 0]
    /\ given = [fd \in 0..(nofile - 1) |-> 0]
    /\ gil = 1
    /\ pc = [t \in Threads |-> "py"]
    /\ req = [t \in Threads |-> NoRequest]
    /\ res = [t \in Threads |-> NoResult]
    /\ errno = [t \in Threads |-> "0"]
    /\ ret = [t \in Threads |-> PyNull]

\* as Enter, Py_BEGIN_ALLOW_THREADS left out
EnterHoldingLock(t, r) ==
    /\ pc[t] = "py"
    /\ gil = t
    /\ req' = [req EXCEPT ![t] = r]
    /\ res' = [res EXCEPT ![t] = NoResult]
    /\ ret' = [ret EXCEPT ![t] = PyNull]
    /\ pc' = [pc EXCEPT ![t] = "call"]
    /\ UNCHANGED <<gil, fdt, total, given, errno>>

\* Entering a C function from Python: the thread holds the interpreter
\* lock; the arguments are parsed and the kernel arguments prepared; with
\* Py_BEGIN_ALLOW_THREADS the lock is released before the kernel call.
Enter(t, r) ==
    /\ pc[t] = "py"
    /\ gil = t
    /\ req' = [req EXCEPT ![t] = r]
    /\ res' = [res EXCEPT ![t] = NoResult]
    /\ ret' = [ret EXCEPT ![t] = PyNull]
    /\ pc' = [pc EXCEPT ![t] = "call"]
    /\ gil' = NoThread
    /\ UNCHANGED <<fdt, total, given, errno>>

timerfd_create(t, clockid, flags) ==
    Enter(t, Request("create", 0, 0, flags, clockid, DZero, DZero, NsZero, NsZero, ItsZero))

timerfd_settime(t, fd, flags, value, interval) ==
    \E v \in SplitDouble(value), i \in SplitDouble(interval) :
        Enter(t, Request("settime", fd, fd, flags, 0, value, interval, NsZero, NsZero,
                         struct_itimerspec(v, i)))

timerfd_gettime(t, fd) ==
    Enter(t, Request("gettime", fd, fd, 0, 0, DZero, DZero, NsZero, NsZero, ItsZero))

timerfd_read(t, fd) ==
    Enter(t, Request("read", fd, fd, 0, 0, DZero, DZero, NsZero, NsZero, ItsZero))

\* (long int)value for an int value
IntToLong(n) ==
    IF n < 0 THEN Long(TRUE, 0, (0 - n) \div Base, (0 - n) % Base)
             ELSE Long(FALSE, 0, n \div Base, n % Base)

\* Line 65 parses value and interval with the format "l", which stores a
\* 64-bit long, into the 32-bit ints of lines 56-57: each store also
\* overwrites the four bytes behind its target with the long's high word.
\* What lies there is the build's choice: another of the parsed locals, or
\* something the function does not read afterwards.  A layout names what
\* follows value and what follows interval.
StackLayouts ==
    { l \in {"other", "fd", "flags", "interval"} \X {"other", "fd", "flags", "value"} :
        /\ l[1] = "other" \/ l[1] # l[2]
        /\ ~(l[1] = "interval" /\ l[2] = "value") }

\* the locals fd, flags, value, interval after line 65: value is stored
\* first, interval second
ParseTuple_iill(fd, flags, v, iv) ==
    { [fd       |-> IF l[2] = "fd" THEN iv.hi ELSE IF l[1] = "fd" THEN v.hi ELSE fd,
       flags    |-> IF l[2] = "flags" THEN iv.hi ELSE IF l[1] = "flags" THEN v.hi ELSE flags,
       value    |-> IF l[2] = "value" THEN iv.hi ELSE v.lo,
       interval |-> iv.lo] : l \in StackLayouts }

timerfd_settime_ns(t, fd, flags, value, interval) ==
    \E a \in ParseTuple_iill(fd, flags, value, interval) :
        Enter(t, Request("settime_ns", fd, a.fd, a.flags, 0, DZero, DZero, value, interval,
                         struct_itimerspec(Timespec(LongZero, IntToLong(a.value)),
                                           Timespec(LongZero, IntToLong(a.interval)))))

-----------------------------------------------------------------------------
(* The kernel calls.  Each runs without the interpreter lock and is atomic  *)
(* with respect to the other calls on the descriptor table.                *)

\* the kernel call of thread t returns: -1 sets errno, success leaves it
SysReturn(t, r) ==
    /\ res' = [res EXCEPT ![t] = r]
    /\ errno' = [errno EXCEPT ![t] = IF r.err = "" THEN @ ELSE r.err]
    /\ pc' = [pc EXCEPT ![t] = "ret"]
    /\ UNCHANGED <<gil, req, ret>>

SysFail(t, e) ==
    /\ SysReturn(t, Result(-1, ZeroBytes, ItsZero, e))
    /\ UNCHANGED <<fdt, total, given>>

InKernel(t, ops) == pc[t] = "call" /\ req[t].op \in ops

IsOpen(fd) == fd \in DOMAIN fdt /\ fdt[fd].kind # "closed"
IsTimer(fd) == fd \in DOMAIN fdt /\ fdt[fd].kind = "timer"

\* timerfd_create(2): clock ids other than the realtime, monotonic, boottime
\* and alarm clocks, and unknown flags, are EINVAL; a full table is EMFILE
sys_timerfd_create(t) ==
    /\ InKernel(t, {"create"})
    /\ LET r == req[t]
           free == {fd \in DOMAIN fdt : fdt[fd].kind = "closed"}
       IN  IF \/ r.clockid \notin {CLOCK_REALTIME, CLOCK_MONOTONIC}
              \/ r.flags \notin {0, TFD_NONBLOCK, TFD_CLOEXEC, TFD_NONBLOCK + TFD_CLOEXEC}
           THEN SysFail(t, "EINVAL")
           ELSE IF free = {}
           THEN SysFail(t, "EMFILE")
           ELSE LET fd == CHOOSE f \in free : \A g \in free : f <= g
                IN  /\ fdt' = [fdt EXCEPT ![fd] = File("timer", r.flags \in {TFD_NONBLOCK, TFD_NONBLOCK + TFD_CLOEXEC},
                                                          ItsZero, 0)]
                    /\ total' = [total EXCEPT ![fd] = 0]
                    /\ given' = [given EXCEPT ![fd] = 0]
                    /\ SysReturn(t, Result(fd, ZeroBytes, ItsZero, ""))

\* timespec64_valid
TimespecValid(ts) ==
    /\ ~ts.tv_sec.neg
    /\ ~ts.tv_nsec.neg /\ ts.tv_nsec.d2 = 0 /\ ts.tv_nsec.d1 = 0

\* times a running timer can be found to have left
ClockSamples == { Timespec(LongZero, Long(FALSE, 0, 0, 1000000)) }

Earlier(v) == {k \in ClockSamples : TsLess(k, v)}

\* the time to the first expiration: the given one, or with
\* TFD_TIMER_ABSTIME what is left of it on the clock
FirstExpiry(flags, v) ==
    IF flags \in {TFD_TIMER_ABSTIME, TFD_TIMER_ABSTIME + 2} /\ ~TsIsZero(v)
    THEN {v} \cup Earlier(v) ELSE {v}

\* timerfd_settime(2): flags and the new value are checked before the
\* descriptor; the old setting is returned, the expiration count cleared,
\* the interval stored, and the timer started unless it_value is zero
sys_timerfd_settime(t) ==
    /\ InKernel(t, {"settime", "settime_ns"})
    /\ LET r == req[t]
           nv == r.new_value
       IN  IF \/ r.flags \notin 0..3
              \/ ~TimespecValid(nv.it_value)
              \/ ~TimespecValid(nv.it_interval)
           THEN SysFail(t, "EINVAL")
           ELSE IF ~IsOpen(r.fd)
           THEN SysFail(t, "EBADF")
           ELSE IF ~IsTimer(r.fd)
           THEN SysFail(t, "EINVAL")
           ELSE \E first \in FirstExpiry(r.flags, nv.it_value) :
                    /\ fdt' = [fdt EXCEPT ![r.fd] =
                                [@ EXCEPT !.it = struct_itimerspec(first, nv.it_interval),
                                          !.ticks = 0]]
                    /\ total' = [total EXCEPT ![r.fd] = 0]
                    /\ given' = [given EXCEPT ![r.fd] = 0]
                    /\ SysReturn(t, Result(0, ZeroBytes, fdt[r.fd].it, ""))

\* timerfd_gettime(2)
sys_timerfd_gettime(t) ==
    /\ InKernel(t, {"gettime"})
    /\ LET r == req[t]
       IN  IF ~IsOpen(r.fd)
           THEN SysFail(t, "EBADF")
           ELSE IF ~IsTimer(r.fd)
           THEN SysFail(t, "EINVAL")
           ELSE /\ SysReturn(t, Result(0, ZeroBytes, fdt[r.fd].it, ""))
                /\ UNCHANGED <<fdt, total, given>>

\* what a stream can deliver, and what the buffer of line 165 can hold
\* where the kernel did not write
StreamData ==
    { <<255, 255, 255, 255, 255, 255, 255, 255>>,
      <<0, 0, 0, 0, 0, 0, 0, 128>>,
      <<255, 255, 255, 255, 255, 255, 255, 127>> }

Uninitialized == { ZeroBytes, <<170, 170, 170, 170, 170, 170, 170, 170>> }

\* one stream content, one stale buffer
OneStream == { <<255, 255, 255, 255, 255, 255, 255, 255>> }
OneStale == { <<170, 170, 170, 170, 170, 170, 170, 170>> }

\* read(2) of 8 bytes.  A stream delivers 0..8 bytes; a timer delivers its
\* 8-byte expiration count and clears it, waits while the count is zero,
\* or fails with EAGAIN when it is non-blocking.
sys_read(t, stream, stale) ==
    /\ InKernel(t, {"read"})
    /\ LET r == req[t]
       IN  IF ~IsOpen(r.fd)
           THEN SysFail(t, "EBADF")
           ELSE IF ~IsTimer(r.fd)
           THEN \E n \in 0..8, data \in stream, u \in stale :
                    /\ SysReturn(t, Result(n, [i \in 1..8 |-> IF i <= n THEN data[i] ELSE u[i]],
                                           ItsZero, ""))
                    /\ UNCHANGED <<fdt, total, given>>
           ELSE IF fdt[r.fd].ticks > 0
           THEN /\ fdt' = [fdt EXCEPT ![r.fd].ticks = 0]
                /\ SysReturn(t, Result(8, U64Bytes(fdt[r.fd].ticks), ItsZero, ""))
                /\ UNCHANGED <<total, given>>
           ELSE /\ fdt[r.fd].nonblock
                /\ SysFail(t, "EAGAIN")

\* a signal arrives while read(2) waits for the first expiration
Interrupt(t) ==
    /\ InKernel(t, {"read"})
    /\ IsTimer(req[t].fd)
    /\ fdt[req[t].fd].ticks = 0
    /\ ~fdt[req[t].fd].nonblock
    /\ SysFail(t, "EINTR")

\* an armed timer expires: the count grows; a periodic timer is re-armed
\* with its interval, a one-shot timer is disarmed
Expire(fd, cap) ==
    /\ IsTimer(fd)
    /\ ~TsIsZero(fdt[fd].it.it_value)
    /\ total[fd] < cap
    /\ fdt' = [fdt EXCEPT ![fd] =
                [@ EXCEPT !.ticks = @ + 1, !.it.it_value = fdt[fd].it.it_interval]]
    /\ total' = [total EXCEPT ![fd] = @ + 1]
    /\ UNCHANGED <<given, gil, pc, req, res, errno, ret>>

\* time passes on an armed timer
Elapse(fd) ==
    /\ IsTimer(fd)
    /\ \E k \in Earlier(fdt[fd].it.it_value) :
           fdt' = [fdt EXCEPT ![fd].it.it_value = k]
    /\ UNCHANGED <<total, given, gil, pc, req, res, errno, ret>>

-----------------------------------------------------------------------------
(* Back in the C function: Py_END_ALLOW_THREADS takes the interpreter lock *)
(* again (errno is kept across it), then the return value is translated.   *)

\* lines 41-44
create_result(result, e) ==
    IF result = -1 THEN PyOSError(e) ELSE PyLongObj(PyLong_FromInt(result))

\* lines 118-126
settime_result(result, old_value, e) ==
    IF result = -1 THEN PyOSError(e)
    ELSE PyTuple(JoinDouble(old_value.it_value), JoinDouble(old_value.it_interval))

\* lines 78-86
settime_ns_result(result, old_value, e) ==
    IF result = -1 THEN PyOSError(e)
    ELSE PyTuple(JoinDouble(old_value.it_value), JoinDouble(old_value.it_interval))

\* as gettime_result, the check of line 148 left out
gettime_result_unchecked(result, curr_value, e) ==
    PyTuple(JoinDouble(curr_value.it_value), JoinDouble(curr_value.it_interval))

\* lines 148-156
gettime_result(result, curr_value, e) ==
    IF result = -1 THEN PyOSError(e)
    ELSE PyTuple(JoinDouble(curr_value.it_value), JoinDouble(curr_value.it_interval))

\* as read_result, returning read's return value in place of the buffer
read_result_size(result, buffer, e) ==
    IF result = -1 THEN [py |-> PyOSError(e), errno |-> e]
    ELSE IF result # 8 THEN [py |-> PyOSError("EIO"), errno |-> "EIO"]
    ELSE [py |-> PyLongObj(PyLong_FromInt(result)), errno |-> e]

\* as read_result, the check of line 178 left out
read_result_unchecked(result, buffer, e) ==
    IF result = -1 THEN [py |-> PyOSError(e), errno |-> e]
    ELSE [py |-> PyLongObj(PyLong_FromLong(buffer)), errno |-> e]

\* lines 175-185: the object returned, and errno afterwards
read_result(result, buffer, e) ==
    IF result = -1 THEN [py |-> PyOSError(e), errno |-> e]
    ELSE IF result # 8 THEN [py |-> PyOSError("EIO"), errno |-> "EIO"]
    ELSE [py |-> PyLongObj(PyLong_FromLong(buffer)), errno |-> e]

Leave(t, py, e) ==
    /\ pc[t] = "ret"
    /\ gil = NoThread
    /\ gil' = t
    /\ pc' = [pc EXCEPT ![t] = "py"]
    /\ ret' = [ret EXCEPT ![t] = py]
    /\ errno' = [errno EXCEPT ![t] = e]
    /\ given' = IF req[t].op = "read" /\ py.kind = "int" /\ IsTimer(req[t].fd) /\ PySmall(py.v)
                THEN [given EXCEPT ![req[t].fd] = @ + PyValue(py.v)]
                ELSE given
    /\ UNCHANGED <<fdt, total, req, res>>

create_return(t) ==
    /\ req[t].op = "create"
    /\ Leave(t, create_result(res[t].result, errno[t]), errno[t])

settime_return(t) ==
    /\ req[t].op = "settime"
    /\ Leave(t, settime_result(res[t].result, res[t].old_value, errno[t]), errno[t])

settime_ns_return(t) ==
    /\ req[t].op = "settime_ns"
    /\ Leave(t, settime_ns_result(res[t].result, res[t].old_value, errno[t]), errno[t])

gettime_return(t) ==
    /\ req[t].op = "gettime"
    /\ Leave(t, gettime_result(res[t].result, res[t].old_value, errno[t]), errno[t])

read_return(t) ==
    /\ req[t].op = "read"
    /\ LET out == read_result(res[t].result, res[t].buffer, errno[t])
       IN  Leave(t, out.py, out.errno)

\* Between calls the interpreter hands the lock from thread to thread.
Yield(t) ==
    /\ pc[t] = "py"
    /\ gil = t
    /\ gil' = NoThread
    /\ UNCHANGED <<fdt, total, given, pc, req, res, errno, ret>>

Acquire(t) ==
    /\ pc[t] = "py"
    /\ gil = NoThread
    /\ gil' = t
    /\ UNCHANGED <<fdt, total, given, pc, req, res, errno, ret>>

-----------------------------------------------------------------------------
(* Specifications.                                                         *)

\* descriptors passed as arguments: standard input (a stream) and the first
\* slot above the standard descriptors (closed, then the first timer)
FdArgs == {0, TimerFd}

\* every slot above the standard descriptors, open or not
TimerSlots == DOMAIN fdt \ StdFds

\* Spec: one thread, all five operations, arguments that succeed and that
\* fail, on a stream and on one timer.
Init == InitWith(Cardinality(StdFds) + SeqTimers)

Next ==
    \/ \E clockid \in {CLOCK_MONOTONIC, CLOCK_MONOTONIC_RAW}, flags \in {0, TFD_NONBLOCK} :
           timerfd_create(1, clockid, flags)
    \/ \E fd \in FdArgs, value \in {DZero, DFifty, DNegHalf}, interval \in {DZero, DFifty} :
           timerfd_settime(1, fd, 0, value, interval)
    \/ \E fd \in FdArgs, value \in {NsZero, NsTenMs}, interval \in {NsZero, NsTenMs} :
           timerfd_settime_ns(1, fd, 0, value, interval)
    \/ \E fd \in FdArgs : timerfd_gettime(1, fd)
    \/ \E fd \in FdArgs : timerfd_read(1, fd)
    \/ sys_timerfd_create(1)
    \/ sys_timerfd_settime(1)
    \/ sys_timerfd_gettime(1)
    \/ sys_read(1, OneStream, OneStale)
    \/ Interrupt(1)
    \/ create_return(1)
    \/ settime_return(1)
    \/ settime_ns_return(1)
    \/ gettime_return(1)
    \/ read_return(1)
    \/ Expire(TimerFd, MaxExp)

Spec == Init /\ [][Next]_vars

\* SpecDbl: one thread, one timer, timerfd_settime with doubles of every
\* kind: zero, below a nanosecond, negative, beyond the int range.
DblSamples ==
    {DZero, DSubNano, DNegSubNano, DNanoHalf, DFifty, DOneHalf, DNegHalf, DNegOne,
     DIntMax, DBig}

NextDbl ==
    \/ timerfd_create(1, CLOCK_MONOTONIC, 0)
    \/ \E fd \in TimerSlots, flags \in {0, TFD_TIMER_ABSTIME, BadFlag}, value \in DblSamples,
          interval \in {DZero, DNegSubNano, DFifty} :
           timerfd_settime(1, fd, flags, value, interval)
    \/ \E fd \in TimerSlots : timerfd_gettime(1, fd)
    \/ sys_timerfd_create(1)
    \/ sys_timerfd_settime(1)
    \/ sys_timerfd_gettime(1)
    \/ create_return(1)
    \/ settime_return(1)
    \/ gettime_return(1)
    \/ \E fd \in DOMAIN fdt : Expire(fd, FewExp)
    \/ \E fd \in DOMAIN fdt : Elapse(fd)

SpecDbl == InitWith(Cardinality(StdFds) + SeqTimers) /\ [][NextDbl]_vars

\* SpecNs: one thread, two timers, timerfd_settime_ns with nanosecond
\* counts that fit an int and that do not.
NextNs ==
    \/ timerfd_create(1, CLOCK_MONOTONIC, 0)
    \/ \E fd \in TimerSlots, value \in {NsZero, NsTenMs, NsWide},
          interval \in {NsZero, NsWide} :
           timerfd_settime_ns(1, fd, 0, value, interval)
    \/ \E fd \in TimerSlots : timerfd_gettime(1, fd)
    \/ sys_timerfd_create(1)
    \/ sys_timerfd_settime(1)
    \/ sys_timerfd_gettime(1)
    \/ create_return(1)
    \/ settime_ns_return(1)
    \/ gettime_return(1)
    \/ \E fd \in DOMAIN fdt : Expire(fd, FewExp)
    \/ \E fd \in DOMAIN fdt : Elapse(fd)

SpecNs == InitWith(Cardinality(StdFds) + TwoTimers) /\ [][NextNs]_vars

\* SpecRead: one thread reads a stream of every content and a timer.
NextRead ==
    \/ \E flags \in {0, TFD_NONBLOCK} : timerfd_create(1, CLOCK_MONOTONIC, flags)
    \/ \E interval \in {DZero, DFifty} : timerfd_settime(1, TimerFd, 0, DFifty, interval)
    \/ \E fd \in FdArgs : timerfd_read(1, fd)
    \/ sys_timerfd_create(1)
    \/ sys_timerfd_settime(1)
    \/ sys_read(1, StreamData, Uninitialized)
    \/ Interrupt(1)
    \/ create_return(1)
    \/ settime_return(1)
    \/ read_return(1)
    \/ Expire(TimerFd, MaxExp)

SpecRead == InitWith(Cardinality(StdFds) + SeqTimers) /\ [][NextRead]_vars

\* SpecGil: two threads share one timer and the interpreter lock.
NextGil ==
    \E t \in Threads :
        \/ timerfd_create(t, CLOCK_MONOTONIC, 0)
        \/ timerfd_settime(t, TimerFd, 0, DFifty, DZero)
        \/ timerfd_settime_ns(t, TimerFd, 0, NsTenMs, NsZero)
        \/ timerfd_gettime(t, TimerFd)
        \/ timerfd_read(t, TimerFd)
        \/ sys_timerfd_create(t)
        \/ sys_timerfd_settime(t)
        \/ sys_timerfd_gettime(t)
        \/ sys_read(t, OneStream, OneStale)
        \/ Interrupt(t)
        \/ create_return(t)
        \/ settime_return(t)
        \/ settime_ns_return(t)
        \/ gettime_return(t)
        \/ read_return(t)
        \/ Yield(t)
        \/ Acquire(t)
        \/ Expire(TimerFd, FewExp)

SpecGil == InitWith(Cardinality(StdFds) + GilTimers) /\ [][NextGil]_vars

-----------------------------------------------------------------------------
(* Properties.                                                             *)

\* the count in an 8-byte buffer, for counts below 2^31
Count(b) == PyValue(PyInt(FALSE, b))

\* the count read(2) took from timer fd for a thread that has not yet
\* returned it to Python
InFlight(t, fd) ==
    IF pc[t] = "ret" /\ req[t].op = "read" /\ req[t].fd = fd /\ res[t].result = 8
    THEN Count(res[t].buffer) ELSE 0

SettimeOps == {"settime", "settime_ns"}

\* thread t's kernel call returns in this step
SysStep(t, ops) == pc[t] = "call" /\ pc'[t] = "ret" /\ req[t].op \in ops

\* thread t's C function returns to Python in this step
ReturnStep(t, ops) == pc[t] = "ret" /\ pc'[t] = "py" /\ req[t].op \in ops

\* thread t waits in read(2) for the first expiration of a blocking timer
Blocked(t) ==
    /\ pc[t] = "call"
    /\ req[t].op = "read"
    /\ IsTimer(req[t].fd)
    /\ fdt[req[t].fd].ticks = 0
    /\ ~fdt[req[t].fd].nonblock

\* C1: every expiration of a timer since it was set is counted exactly once:
\* in the sum of the counts timerfd_read has returned, in a count read(2) has
\* delivered and timerfd_read is about to return, or in the kernel's counter;
\* and a count timerfd_read returns for a timer is the delivered count,
\* and at least 1.
C1_ExpirationsCountedOnce ==
    /\ \A fd \in DOMAIN fdt :
           IsTimer(fd) =>
               total[fd] = given[fd] + fdt[fd].ticks + InFlight(1, fd) + InFlight(2, fd)
    /\ \A t \in Threads :
           (pc[t] = "py" /\ req[t].op = "read" /\ IsTimer(req[t].fd) /\ ret[t].kind = "int")
               => /\ ret[t].v = PyInt(FALSE, res[t].buffer)
                  /\ PySmall(ret[t].v)
                  /\ PyValue(ret[t].v) >= 1

\* a read returned 1 and, after two more expirations, the next returned 2
C1_Witness ==
    /\ pc[1] = "py" /\ req[1].op = "read" /\ req[1].fd = TimerFd
    /\ ret[1].kind = "int" /\ PyValue(ret[1].v) = 2
    /\ given[TimerFd] = 3 /\ total[TimerFd] = 3 /\ fdt[TimerFd].ticks = 0

\* C2: when read(2) returned 0..7 bytes, timerfd_read raised OSError with
\* EIO and returned no count.
C2_ShortReadRaisesEIO ==
    \A t \in Threads :
        (pc[t] = "py" /\ req[t].op = "read" /\ res[t].result \in 0..7)
            => ret[t] = PyOSError("EIO") /\ errno[t] = "EIO"

\* read(2) returned 3 bytes without failing, and timerfd_read raised EIO
C2_Witness ==
    /\ pc[1] = "py" /\ req[1].op = "read" /\ res[1].result = 3 /\ res[1].err = ""
    /\ ret[1].kind = "OSError" /\ ret[1].errno = "EIO"

\* C3: once the kernel call of an operation has failed, the thread's next
\* step is to return to Python, raising OSError with the error code the call
\* failed with, without another kernel call and without a value; and the
\* outcome stays that error.
C3_FailureRaisesItsErrno ==
    [][\A t \in Threads :
          /\ (pc[t] = "ret" /\ res[t].result = -1)
                => \/ pc'[t] = "ret" /\ res'[t] = res[t]
                   \/ pc'[t] = "py" /\ ret'[t] = PyOSError(res[t].err) /\ fdt' = fdt
          /\ (pc[t] = "py" /\ res[t].result = -1)
                => ret[t] = PyOSError(res[t].err)]_vars

\* timerfd_gettime on a closed descriptor has raised OSError(EBADF)
C3_Witness ==
    /\ pc[1] = "py" /\ req[1].op = "gettime" /\ res[1].result = -1
    /\ ret[1] = PyOSError("EBADF")

\* C4: timerfd_settime with a negative value or interval fails in the kernel
\* and leaves every timer as it was.
C4_NegativeDurationFails ==
    [][\A t \in Threads :
          (SysStep(t, {"settime"})
              /\ (DblNegative(req[t].value) \/ DblNegative(req[t].interval)))
            => res'[t].result = -1 /\ fdt' = fdt]_vars

InitialIsZero(r) ==
    IF r.op = "settime" THEN IsZeroDbl(r.value) ELSE r.value_ns = NsZero

C6_PositiveInitialArms ==
    [][\A t \in Threads :
          (SysStep(t, {"settime"}) /\ DblPositive(req[t].value) /\ res'[t].result = 0)
            => /\ ~TsIsZero(req[t].new_value.it_value)
               /\ ~TsIsZero(fdt'[req[t].fd].it.it_value)]_vars

Within1ns(a, b) ==
    /\ Whole(a) = Whole(b)
    /\ LET x == Mag(a.ns, a.sub)
           y == Mag(b.ns, b.sub)
       IN  IF MagLeq(x, y) THEN MagLeq(MagSub(y, x), Mag(1, 0))
                           ELSE MagLeq(MagSub(x, y), Mag(1, 0))

\* d >= 0 is split into floor(d) seconds and the fraction's nanoseconds,
\* below 1e9, and joined again is within 1e-9 of d
SplitOk(d, ts) ==
    ~d.neg =>
        /\ ts.tv_sec = Long(FALSE, 0, d.hi, d.lo)
        /\ ts.tv_nsec = Long(FALSE, 0, 0, d.ns)
        /\ Within1ns(JoinDouble(ts), d)

\* C8: timerfd_settime splits every duration d >= 0 into floor(d) seconds
\* and nanoseconds in [0, 1e9) from the fraction, and the pair read back as
\* seconds + nanoseconds / 1e9 is within 1e-9 of d.
C8_SplitRoundTrip ==
    \A t \in Threads :
        req[t].op = "settime"
            => /\ SplitOk(req[t].value, req[t].new_value.it_value)
               /\ SplitOk(req[t].interval, req[t].new_value.it_interval)

\* C9: a thread in its kernel call, or back from it and not yet returned,
\* does not hold the interpreter lock; the kernel call runs without it; the
\* return to Python takes the lock, which was free, before translating.
C9_LockReleasedAroundKernelCall ==
    [][\A t \in Threads :
          /\ pc[t] \in {"call", "ret"} => gil # t
          /\ (pc[t] = "call" /\ pc'[t] = "ret") => gil' # t
          /\ (pc[t] = "ret" /\ pc'[t] = "py") => gil = NoThread /\ gil' = t
          /\ pc'[t] \in {"call", "ret"} => gil' # t]_vars

\* thread 1 waits in read(2) on the armed timer with no expiration yet,
\* while thread 2 took the lock, entered timerfd_settime and armed it
C9_Witness ==
    /\ Blocked(1)
    /\ ~TsIsZero(fdt[req[1].fd].it.it_value)
    /\ pc[2] = "ret" /\ req[2].op = "settime" /\ req[2].fd = req[1].fd
    /\ res[2].result = 0

\* C10: a full read's 8 bytes, whatever their value, are returned as the
\* non-negative Python int of that value.
C10_CountIsUnsigned ==
    \A t \in Threads :
        (pc[t] = "py" /\ req[t].op = "read" /\ res[t].result = 8)
            => ret[t] = PyLongObj(PyInt(FALSE, res[t].buffer))

====
